---------------------------- MODULE Spec2Model ----------------------------
(***************************************************************************)
(* The Schulze evaluation of schulze_condorcet: one call of an entry point *)
(* (schulze_evaluate, schulze_evaluate_detailed, pairwise_preference),     *)
(* stepping through _check_consistency, _pairwise_preference, the link     *)
(* strengths, the level loop of _schulze_evaluate_routine and the return.  *)
(*                                                                         *)
(* A string is a sequence of one-character strings; a candidate is such a  *)
(* string, a vote string is split at ">" and "=" as as_vote_tuple does.    *)
(***************************************************************************)
EXTENDS Integers, Sequences, FiniteSets, TLC

VARIABLES
    pc,          \* position of the call
    entry,       \* the entry point called
    votes,       \* argument votes: a sequence of vote strings
    candidates,  \* argument candidates: a sequence of candidates
    strength,    \* argument strength: the name of the strength callback
    counts,      \* _schulze_evaluate_routine: counts
    d,           \* _schulze_evaluate_routine: d
    result,      \* _schulze_evaluate_routine: result
    ret,         \* the value returned
    error        \* the message of the ValueError raised, or NoError

vars == <<pc, entry, votes, candidates, strength, counts, d, result, ret, error>>

---------------------------------------------------------------------------
(* Strings *)

RECURSIVE SplitFrom(_, _, _, _, _)
SplitFrom(s, sep, i, cur, acc) ==
    IF i > Len(s) THEN Append(acc, cur)
    ELSE IF s[i] = sep THEN SplitFrom(s, sep, i + 1, <<>>, Append(acc, cur))
    ELSE SplitFrom(s, sep, i + 1, Append(cur, s[i]), acc)

\* str.split(sep) for a one-character separator
split(s, sep) == SplitFrom(s, sep, 1, <<>>, <<>>)

RECURSIVE join(_, _)
\* sep.join(parts)
join(sep, parts) ==
    IF Len(parts) = 0 THEN <<>>
    ELSE IF Len(parts) = 1 THEN parts[1]
    ELSE parts[1] \o <<sep>> \o join(sep, Tail(parts))

RECURSIVE SplitEach(_, _)
\* [part.split(sep) for part in parts]
SplitEach(parts, sep) ==
    IF Len(parts) = 0 THEN <<>>
    ELSE <<split(parts[1], sep)>> \o SplitEach(Tail(parts), sep)

as_vote_tuple(value) == SplitEach(split(value, ">"), "=")

RECURSIVE as_vote_tuples(_)
as_vote_tuples(values) ==
    IF Len(values) = 0 THEN <<>>
    ELSE <<as_vote_tuple(values[1])>> \o as_vote_tuples(Tail(values))

RECURSIVE JoinEach(_, _)
\* [sep.join(level) for level in value]
JoinEach(sep, value) ==
    IF Len(value) = 0 THEN <<>>
    ELSE <<join(sep, value[1])>> \o JoinEach(sep, Tail(value))

as_vote_string(value) == join(">", JoinEach("=", value))

Range(s) == {s[i] : i \in 1..Len(s)}

\* a dict comprehension builds its table once: the same function, with every
\* value computed when the table is made
Dict(f) == f @@ <<>>

RECURSIVE Flatten(_)
\* itertools.chain.from_iterable
Flatten(ss) == IF Len(ss) = 0 THEN <<>> ELSE ss[1] \o Flatten(Tail(ss))

---------------------------------------------------------------------------
(* strength.py *)

\* a variant that leaves the opposition out of a winning link
winning_votes_support_only(support, opposition, totalvotes) ==
    IF support > opposition THEN totalvotes * support
    ELSE IF support = opposition THEN 0
    ELSE -1

\* a variant that rates a losing link above a tied one
winning_votes_losing_above(support, opposition, totalvotes) ==
    IF support > opposition THEN totalvotes * support - opposition
    ELSE IF support = opposition THEN 0
    ELSE 1

winning_votes(support, opposition, totalvotes) ==
    IF support > opposition THEN totalvotes * support - opposition
    ELSE IF support = opposition THEN 0
    ELSE -1

\* a variant with the operands exchanged
margin_exchanged(support, opposition, totalvotes) == opposition - support

margin(support, opposition, totalvotes) == support - opposition

StrengthCallbacks == {"winning_votes", "margin"}

\* float("nan"), which a callback can return in place of an int: a reserved
\* number that no strength of winning_votes or margin takes
NotANumber == -1000

\* a callback of the caller that returns float("nan") for every link
not_a_number(support, opposition, totalvotes) == NotANumber

\* the callbacks of strength.py and the callback that returns float("nan")
AnyCallbacks == StrengthCallbacks \cup {"not_a_number"}

\* the call strength(support=..., opposition=..., totalvotes=...)
CallStrength(callback, support, opposition, totalvotes) ==
    IF callback = "winning_votes"
    THEN winning_votes(support, opposition, totalvotes)
    ELSE IF callback = "margin"
    THEN margin(support, opposition, totalvotes)
    ELSE not_a_number(support, opposition, totalvotes)

\* a < b and a >= b of Python: False as soon as an operand is float("nan")
Less(a, b) == a # NotANumber /\ b # NotANumber /\ a < b
GreaterEqual(a, b) == a # NotANumber /\ b # NotANumber /\ a >= b

---------------------------------------------------------------------------
(* _check_consistency *)

NoError == "none"
ForbiddenCharacter == "A candidate contains a forbidden character."
Superfluous == "Superfluous candidate in vote string."
Missing == "Missing candidate in vote string."
NotExactlyOnce == "Every candidate must occur exactly once in each vote."

\* a variant that looks for ">" only
HasForbiddenGreaterOnly(candidate) == ">" \in Range(candidate)

\* ">" in candidate or "=" in candidate
HasForbidden(candidate) == ">" \in Range(candidate) \/ "=" \in Range(candidate)

\* a variant with the subset test the other way round
CheckVoteSuperset(vote, cands) ==
    LET candidates_set == Range(cands)
        vote_candidates == Flatten(vote)
        vote_candidates_set == Range(vote_candidates)
    IN  IF candidates_set # vote_candidates_set
        THEN IF vote_candidates_set \subseteq candidates_set
                /\ candidates_set # vote_candidates_set
             THEN Superfluous
             ELSE Missing
        ELSE IF ~(Len(vote_candidates) = Cardinality(vote_candidates_set))
        THEN NotExactlyOnce
        ELSE NoError

\* a variant without the comparison of the lengths
CheckVoteSetsOnly(vote, cands) ==
    LET candidates_set == Range(cands)
        vote_candidates_set == Range(Flatten(vote))
    IN  IF candidates_set # vote_candidates_set
        THEN IF candidates_set \subseteq vote_candidates_set
                /\ candidates_set # vote_candidates_set
             THEN Superfluous
             ELSE Missing
        ELSE NoError

\* the body of the loop over the votes: the error one vote raises, or NoError
CheckVote(vote, cands) ==
    LET candidates_set == Range(cands)
        vote_candidates == Flatten(vote)
        vote_candidates_set == Range(vote_candidates)
    IN  IF candidates_set # vote_candidates_set
        THEN IF candidates_set \subseteq vote_candidates_set
                /\ candidates_set # vote_candidates_set
             THEN Superfluous
             ELSE Missing
        ELSE IF ~(Len(vote_candidates) = Cardinality(vote_candidates_set))
        THEN NotExactlyOnce
        ELSE NoError

\* a variant that takes the votes from the last to the first
VoteInTurnBackwards(tuples, k) == tuples[Len(tuples) + 1 - k]

\* the vote the k-th iteration of the loop looks at
VoteInTurn(tuples, k) == tuples[k]

RECURSIVE CheckVotesFrom(_, _, _)
\* the loop over the votes from its k-th iteration on: the first error raised
CheckVotesFrom(tuples, cands, k) ==
    IF k > Len(tuples) THEN NoError
    ELSE LET e == CheckVote(VoteInTurn(tuples, k), cands)
         IN  IF e # NoError THEN e ELSE CheckVotesFrom(tuples, cands, k + 1)

\* the error _check_consistency raises, or NoError
_check_consistency(vs, cands) ==
    IF \E i \in 1..Len(cands) : HasForbidden(cands[i])
    THEN ForbiddenCharacter
    ELSE CheckVotesFrom(as_vote_tuples(vs), cands, 1)

---------------------------------------------------------------------------
(* _pairwise_preference *)

NotInList == -1

RECURSIVE SubindexFrom(_, _, _)
SubindexFrom(alist, element, index) ==
    IF index > Len(alist) THEN NotInList
    ELSE IF element \in Range(alist[index]) THEN index - 1
    ELSE SubindexFrom(alist, element, index + 1)

\* a variant that numbers the candidates of a vote one by one, ties or not
_subindex_by_position(alist, element) ==
    LET names == Flatten(alist)
    IN  IF element \notin Range(names) THEN NotInList
        ELSE (CHOOSE i \in 1..Len(names) :
                  names[i] = element /\ \A j \in 1..(i - 1) : names[j] # element) - 1

\* the index of the first sublist holding element (NotInList: ValueError)
_subindex(alist, element) == SubindexFrom(alist, element, 1)

Pairs(cands) == Range(cands) \X Range(cands)

\* a variant that also counts a tie, for both directions
CountVoteWithTies(cnt, vote, cands) ==
    Dict([pair \in Pairs(cands) |->
        IF _subindex(vote, pair[1]) <= _subindex(vote, pair[2])
        THEN cnt[pair] + 1
        ELSE cnt[pair]])

\* one iteration of the loop over the votes
CountVote(cnt, vote, cands) ==
    Dict([pair \in Pairs(cands) |->
        IF _subindex(vote, pair[1]) < _subindex(vote, pair[2])
        THEN cnt[pair] + 1
        ELSE cnt[pair]])

RECURSIVE CountVotesFrom(_, _, _, _)
CountVotesFrom(cnt, tuples, cands, k) ==
    IF k > Len(tuples) THEN cnt
    ELSE CountVotesFrom(CountVote(cnt, tuples[k], cands), tuples, cands, k + 1)

\* a variant whose loop starts at the second vote
_pairwise_preference_from_second(vs, cands) ==
    CountVotesFrom(Dict([pair \in Pairs(cands) |-> 0]), as_vote_tuples(vs), cands, 2)

_pairwise_preference(vs, cands) ==
    CountVotesFrom(Dict([pair \in Pairs(cands) |-> 0]), as_vote_tuples(vs), cands, 1)

---------------------------------------------------------------------------
(* _schulze_winners *)

\* max(a, b) and min(a, b) of Python: b when it is greater (less), else a
Max(a, b) == IF Less(a, b) THEN b ELSE a
Min(a, b) == IF Less(b, a) THEN b ELSE a

\* a variant of the assignment without the max
RelaxWithoutMax(p, i, j, k) ==
    [p EXCEPT ![<<j, k>>] = Min(p[<<j, i>>], p[<<i, k>>])]

\* the assignment of the innermost loop
Relax(p, i, j, k) ==
    [p EXCEPT ![<<j, k>>] = Max(p[<<j, k>>], Min(p[<<j, i>>], p[<<i, k>>]))]

RECURSIVE LoopK(_, _, _, _, _)
LoopK(p, cands, i, j, kk) ==
    IF kk > Len(cands) THEN p
    ELSE IF cands[kk] \in {cands[i], cands[j]}
    THEN LoopK(p, cands, i, j, kk + 1)
    ELSE LoopK(Relax(p, cands[i], cands[j], cands[kk]), cands, i, j, kk + 1)

RECURSIVE LoopJ(_, _, _, _)
LoopJ(p, cands, i, jj) ==
    IF jj > Len(cands) THEN p
    ELSE IF cands[i] = cands[jj] THEN LoopJ(p, cands, i, jj + 1)
    ELSE LoopJ(LoopK(p, cands, i, jj, 1), cands, i, jj + 1)

RECURSIVE LoopI(_, _, _)
\* a variant of the outer loop that never takes the first candidate
LoopIAfterFirst(p, cands, ii) ==
    IF ii > Len(cands) THEN p
    ELSE IF ii = 1 THEN LoopI(p, cands, 2)
    ELSE LoopI(LoopJ(p, cands, ii, 1), cands, ii + 1)

LoopI(p, cands, ii) ==
    IF ii > Len(cands) THEN p
    ELSE LoopI(LoopJ(p, cands, ii, 1), cands, ii + 1)

\* a variant without the three loops
StrongestPathsDirect(dd, cands) == Dict([pair \in Pairs(cands) |-> dd[pair]])

\* the strongest paths: p after the three loops
StrongestPaths(dd, cands) ==
    LoopI(Dict([pair \in Pairs(cands) |-> dd[pair]]), cands, 1)

\* a variant with the comparison the other way round
IsWinnerReversed(p, cands, i) ==
    \A j \in Range(cands) : GreaterEqual(p[<<j, i>>], p[<<i, j>>])

\* a variant that compares with candidates[1:] only
IsWinnerAmongTail(p, cands, i) ==
    \A j \in Range(Tail(cands)) : GreaterEqual(p[<<i, j>>], p[<<j, i>>])

\* all(p[(i, j)] >= p[(j, i)] for j in candidates)
IsWinner(p, cands, i) ==
    \A j \in Range(cands) : GreaterEqual(p[<<i, j>>], p[<<j, i>>])

\* a variant that keeps the first winner only
_schulze_winners_first_only(dd, cands) ==
    LET p == StrongestPaths(dd, cands)
        w == SelectSeq(cands, LAMBDA i : IsWinner(p, cands, i))
    IN  SubSeq(w, 1, 1)

\* a variant that collects the winners from the last candidate to the first
_schulze_winners_backwards(dd, cands) ==
    LET p == StrongestPaths(dd, cands)
        w == SelectSeq(cands, LAMBDA i : IsWinner(p, cands, i))
    IN  [i \in 1..Len(w) |-> w[Len(w) + 1 - i]]

_schulze_winners(dd, cands) ==
    LET p == StrongestPaths(dd, cands)
    IN  SelectSeq(cands, LAMBDA i : IsWinner(p, cands, i))

---------------------------------------------------------------------------
(* _schulze_evaluate_routine *)

\* a variant that passes support and opposition exchanged
LinkStrengthExchanged(cnt, cands, callback, totalvotes) ==
    Dict([pair \in Pairs(cands) |->
        CallStrength(callback, cnt[<<pair[2], pair[1]>>], cnt[pair], totalvotes)])

LinkStrength(cnt, cands, callback, totalvotes) ==
    Dict([pair \in Pairs(cands) |->
        CallStrength(callback, cnt[pair], cnt[<<pair[2], pair[1]>>], totalvotes)])

\* a variant that leaves out the last level
DoneWithoutLast(res) == UNION {Range(res[l]) : l \in 1..(Len(res) - 1)}

\* done = {x for level in result for x in level}
Done(res) == UNION {Range(res[l]) : l \in 1..Len(res)}

\* a variant that keeps every candidate
RemainingAll(res, cands) == cands

\* remaining = tuple(c for c in candidates if c not in done)
Remaining(res, cands) == SelectSeq(cands, LAMBDA c : c \notin Done(res))

RECURSIVE LevelLoop(_, _, _)
\* the while loop, from a result built so far to the result it ends with
LevelLoop(dd, cands, res) ==
    LET remaining == Remaining(res, cands)
    IN  IF Len(remaining) = 0 THEN res
        ELSE LevelLoop(dd, cands, Append(res, _schulze_winners(dd, remaining)))

\* the pair (counts, result) the routine returns
_schulze_evaluate_routine(vs, cands, callback) ==
    LET cnt == _pairwise_preference(vs, cands)
        dd == LinkStrength(cnt, cands, callback, Len(vs))
    IN  [counts |-> cnt, result |-> LevelLoop(dd, cands, <<>>)]

---------------------------------------------------------------------------
(* The entry points: what a call raises and what it returns *)

NoValue == <<>>

schulze_evaluate(vs, cands, callback) ==
    LET e == _check_consistency(vs, cands)
    IN  IF e # NoError THEN [raised |-> e, value |-> NoValue]
        ELSE [raised |-> NoError,
              value |-> as_vote_string(
                            _schulze_evaluate_routine(vs, cands, callback).result)]

\* a variant with support and opposition read the other way round
DetailedLevelExchanged(cnt, preferred_candidates, rejected_candidates) ==
    LET keys == Range(preferred_candidates) \X Range(rejected_candidates)
    IN  [preferred |-> preferred_candidates,
         rejected |-> rejected_candidates,
         support |-> [pair \in keys |-> cnt[<<pair[2], pair[1]>>]],
         opposition |-> [pair \in keys |-> cnt[<<pair[1], pair[2]>>]]]

\* one DetailedResultLevel
DetailedLevel(cnt, preferred_candidates, rejected_candidates) ==
    LET keys == Range(preferred_candidates) \X Range(rejected_candidates)
    IN  [preferred |-> preferred_candidates,
         rejected |-> rejected_candidates,
         support |-> [pair \in keys |-> cnt[<<pair[1], pair[2]>>]],
         opposition |-> [pair \in keys |-> cnt[<<pair[2], pair[1]>>]]]

\* a variant built from zip(result[1:], result[2:])
DetailedFromSecond(cnt, res) ==
    [l \in 1..(IF Len(res) < 2 THEN 0 ELSE Len(res) - 2) |->
        DetailedLevel(cnt, res[l + 1], res[l + 2])]

\* the list built from zip(result, result[1:])
Detailed(cnt, res) ==
    [l \in 1..(IF Len(res) = 0 THEN 0 ELSE Len(res) - 1) |->
        DetailedLevel(cnt, res[l], res[l + 1])]

schulze_evaluate_detailed(vs, cands, callback) ==
    LET e == _check_consistency(vs, cands)
        r == _schulze_evaluate_routine(vs, cands, callback)
    IN  IF e # NoError THEN [raised |-> e, value |-> NoValue]
        ELSE [raised |-> NoError, value |-> Detailed(r.counts, r.result)]

pairwise_preference(vs, cands) ==
    LET e == _check_consistency(vs, cands)
    IN  IF e # NoError THEN [raised |-> e, value |-> NoValue]
        ELSE [raised |-> NoError, value |-> _pairwise_preference(vs, cands)]

---------------------------------------------------------------------------
(* The inputs *)

\* the candidate names the inputs are drawn from
Universe == <<"a", "b", "c">>

\* most ballots of a call, for all entry points
MaxVotes == 3

\* most ballots of a call of schulze_evaluate with all of Universe as candidates
MaxProfile == 5

EntryPoints == {"schulze_evaluate", "schulze_evaluate_detailed", "pairwise_preference"}

\* the callbacks an entry point can be given (pairwise_preference takes none)
CallbacksOf(e) ==
    IF e = "pairwise_preference" THEN {"winning_votes"} ELSE StrengthCallbacks

\* the candidate list made of the first n names
FirstCandidates(n) == [i \in 1..n |-> <<Universe[i]>>]

CandidateLists == {FirstCandidates(n) : n \in 0..Len(Universe)}

\* a ranking gives each candidate a level 1..k, every level taken
Rankings(n) ==
    {f \in [1..n -> 1..n] : \E k \in 1..n : {f[i] : i \in 1..n} = 1..k}

\* the vote string of a ranking, tied candidates in candidate-list order
BallotOf(cands, f) ==
    LET k == Cardinality({f[i] : i \in 1..Len(cands)})
        level(l) == [i \in 1..Cardinality({j \in 1..Len(cands) : f[j] = l}) |->
                        cands[CHOOSE j \in 1..Len(cands) :
                                  /\ f[j] = l
                                  /\ Cardinality({h \in 1..j : f[h] = l}) = i]]
    IN  as_vote_string([l \in 1..k |-> level(l)])

RECURSIVE SetToSeq(_)
SetToSeq(S) ==
    IF S = {} THEN <<>>
    ELSE LET x == CHOOSE y \in S : TRUE IN <<x>> \o SetToSeq(S \ {x})

\* every valid ballot over cands, once, in a fixed order
Ballots(cands) == SetToSeq({BallotOf(cands, f) : f \in Rankings(Len(cands))})

RECURSIVE SortedIndexLists(_, _)
\* the non-increasing lists of n indices up to top
SortedIndexLists(n, top) ==
    IF n = 0 THEN {<<>>}
    ELSE UNION {{Append(p, i) : p \in SortedIndexLists(n - 1, i)} : i \in 1..top}

\* the ballot collections of up to most valid ballots, one per multiset
Profiles(cands, most) ==
    LET bs == Ballots(cands)
    IN  UNION {{[j \in 1..n |-> bs[p[j]]] : p \in SortedIndexLists(n, Len(bs))}
                  : n \in 0..most}

NoCounts == [pair \in {} |-> 0]

Fresh ==
    /\ pc = "call"
    /\ counts = NoCounts
    /\ d = NoCounts
    /\ result = <<>>
    /\ ret = NoValue
    /\ error = NoError

\* a call with valid ballots
Init ==
    /\ entry \in EntryPoints
    /\ strength \in CallbacksOf(entry)
    /\ candidates \in CandidateLists
    /\ votes \in Profiles(candidates, MaxVotes)
    /\ Fresh

\* a call of schulze_evaluate with valid ballots over all of Universe
InitProfile ==
    /\ entry = "schulze_evaluate"
    /\ strength \in StrengthCallbacks
    /\ candidates = FirstCandidates(Len(Universe))
    /\ votes \in Profiles(candidates, MaxProfile)
    /\ Fresh

\* most candidate names in all the ballots of a call with unchecked ballots
MaxRawNames == 4

\* the vote strings of n names of Universe, joined by ">" or "="
RawBallots(n) ==
    {[i \in 1..(2 * n - 1) |->
         IF i % 2 = 1 THEN ns[(i + 1) \div 2] ELSE seps[i \div 2]]
       : ns \in [1..n -> Range(Universe)], seps \in [1..(n - 1) -> {">", "="}]}

RECURSIVE RawVoteLists(_)
\* the ballot collections that name at most most candidates in all
RawVoteLists(most) ==
    {<<>>} \cup UNION {{<<b>> \o rest : b \in RawBallots(n),
                                        rest \in RawVoteLists(most - n)}
                         : n \in 1..most}

\* candidate lists: without and with a forbidden character
RawCandidateLists ==
    {FirstCandidates(1),
     FirstCandidates(2),
     <<<<Universe[1]>>, <<Universe[2], ">">>>>,
     <<<<"=", Universe[1]>>, <<Universe[2]>>>>}

\* a call with unchecked ballots and the default strength
InitRaw ==
    /\ entry \in EntryPoints
    /\ strength = "winning_votes"
    /\ candidates \in RawCandidateLists
    /\ votes \in RawVoteLists(MaxRawNames)
    /\ Fresh

\* most ballots of a call with any callback
MaxAnyVotes == 2

\* most levels the loop is followed for (more than there are candidates)
MaxLevels == 5

\* a call with valid ballots and any callback
InitAny ==
    /\ entry \in EntryPoints
    /\ strength \in (IF entry = "pairwise_preference" THEN {"winning_votes"}
                      ELSE AnyCallbacks)
    /\ candidates \in CandidateLists
    /\ votes \in Profiles(candidates, MaxAnyVotes)
    /\ Fresh

\* a fourth candidate name
UniverseFour == Append(Universe, "d")

FourCandidates == [i \in 1..Len(UniverseFour) |-> <<UniverseFour[i]>>]

\* the rotations of a sequence
Rotations(seq) ==
    {[i \in 1..Len(seq) |-> seq[((i + k - 1) % Len(seq)) + 1]] : k \in 0..(Len(seq) - 1)}

\* strict ballots over the four candidates: the rotations of the candidate
\* list and of the list with its two middle candidates exchanged
FourBallots ==
    LET exchanged == [FourCandidates EXCEPT ![2] = FourCandidates[3],
                                            ![3] = FourCandidates[2]]
        orders == Rotations(FourCandidates) \cup Rotations(exchanged)
    IN  SetToSeq({as_vote_string([l \in 1..Len(o) |-> <<o[l]>>]) : o \in orders})

\* most ballots of a call over the four candidates
MaxFour == 5

\* a call of schulze_evaluate with strict ballots over four candidates
InitFour ==
    /\ entry = "schulze_evaluate"
    /\ strength \in StrengthCallbacks
    /\ candidates = FourCandidates
    /\ votes \in UNION {{[j \in 1..n |-> FourBallots[p[j]]]
                            : p \in SortedIndexLists(n, Len(FourBallots))}
                          : n \in 0..MaxFour}
    /\ Fresh

---------------------------------------------------------------------------
(* The steps of a call *)

\* lines 161, 181, 219: _check_consistency(votes, candidates)
CheckConsistency ==
    /\ pc = "call"
    /\ LET e == _check_consistency(votes, candidates)
       IN  /\ error' = e
           /\ pc' = IF e # NoError THEN "raised" ELSE "checked"
    /\ UNCHANGED <<entry, votes, candidates, strength, counts, d, result, ret>>

\* _subindex raises ValueError for a candidate in no level of a vote
SubindexRaises(vs, cands) ==
    \E v \in 1..Len(vs) : \E c \in Range(cands) :
        _subindex(as_vote_tuple(vs[v]), c) = NotInList

\* line 221: return _pairwise_preference(votes, candidates)
ReturnPairwise ==
    /\ pc = "checked"
    /\ entry = "pairwise_preference"
    /\ IF SubindexRaises(votes, candidates)
       THEN /\ pc' = "raised"
            /\ error' = "Not in list."
            /\ UNCHANGED <<counts, ret>>
       ELSE /\ pc' = "done"
            /\ counts' = _pairwise_preference(votes, candidates)
            /\ ret' = counts'
            /\ UNCHANGED error
    /\ UNCHANGED <<entry, votes, candidates, strength, d, result>>

\* line 104: counts = _pairwise_preference(votes, candidates)
Tally ==
    /\ pc = "checked"
    /\ entry # "pairwise_preference"
    /\ IF SubindexRaises(votes, candidates)
       THEN /\ pc' = "raised"
            /\ error' = "Not in list."
            /\ UNCHANGED counts
       ELSE /\ pc' = "tallied"
            /\ counts' = _pairwise_preference(votes, candidates)
            /\ UNCHANGED error
    /\ UNCHANGED <<entry, votes, candidates, strength, d, result, ret>>

\* lines 108-114: d and the empty result
Strengths ==
    /\ pc = "tallied"
    /\ d' = LinkStrength(counts, candidates, strength, Len(votes))
    /\ result' = <<>>
    /\ pc' = "loop"
    /\ UNCHANGED <<entry, votes, candidates, strength, counts, ret, error>>

\* lines 116-122: one iteration that appends the winners
LoopIteration ==
    /\ pc = "loop"
    /\ LET remaining == Remaining(result, candidates)
       IN  /\ Len(remaining) > 0
           /\ Len(result) < MaxLevels
           /\ result' = Append(result, _schulze_winners(d, remaining))
    /\ UNCHANGED <<pc, entry, votes, candidates, strength, counts, d, ret, error>>

\* lines 119-120, 124: nothing remains, the routine returns
LoopBreak ==
    /\ pc = "loop"
    /\ Len(Remaining(result, candidates)) = 0
    /\ pc' = "returned"
    /\ UNCHANGED <<entry, votes, candidates, strength, counts, d, result, ret, error>>

\* line 166: return as_vote_string(result)
ReturnCondensed ==
    /\ pc = "returned"
    /\ entry = "schulze_evaluate"
    /\ ret' = as_vote_string(result)
    /\ pc' = "done"
    /\ UNCHANGED <<entry, votes, candidates, strength, counts, d, result, error>>

\* lines 189-205: return detailed
ReturnDetailed ==
    /\ pc = "returned"
    /\ entry = "schulze_evaluate_detailed"
    /\ ret' = Detailed(counts, result)
    /\ pc' = "done"
    /\ UNCHANGED <<entry, votes, candidates, strength, counts, d, result, error>>

Next ==
    \/ CheckConsistency
    \/ ReturnPairwise
    \/ Tally
    \/ Strengths
    \/ LoopIteration
    \/ LoopBreak
    \/ ReturnCondensed
    \/ ReturnDetailed

Spec == Init /\ [][Next]_vars

\* the steps of a call of schulze_evaluate
NextEvaluate ==
    \/ CheckConsistency
    \/ Tally
    \/ Strengths
    \/ LoopIteration
    \/ LoopBreak
    \/ ReturnCondensed

SpecProfile == InitProfile /\ [][NextEvaluate]_vars

SpecRaw == InitRaw /\ [][Next]_vars

SpecFour == InitFour /\ [][NextEvaluate]_vars

SpecAny == InitAny /\ [][Next]_vars

---------------------------------------------------------------------------
(* Properties *)

Reorderings(n) == {f \in [1..n -> 1..n] : \A i, j \in 1..n : f[i] = f[j] => i = j}

Permuted(seq, f) == [i \in 1..Len(seq) |-> seq[f[i]]]

Evaluated == pc = "done" /\ entry = "schulze_evaluate"

OtherCallback == IF strength = "winning_votes" THEN "margin" ELSE "winning_votes"

\* the level of vote tuple vt that holds candidate c, for a valid ballot
LevelOf(vt, c) == CHOOSE l \in 1..Len(vt) : c \in Range(vt[l])

Prefers(v, x, y) ==
    LET vt == as_vote_tuple(v) IN LevelOf(vt, x) < LevelOf(vt, y)

Ties(v, x, y) ==
    LET vt == as_vote_tuple(v) IN LevelOf(vt, x) = LevelOf(vt, y)

DistinctPairs == {pair \in Pairs(candidates) : pair[1] # pair[2]}

\* C1: schulze_evaluate returns the identical string for every permutation
\* of the ballot collection
C1_BallotOrder ==
    Evaluated =>
        \A f \in Reorderings(Len(votes)) :
            LET other == schulze_evaluate(Permuted(votes, f), candidates, strength)
            IN  other.raised = NoError /\ other.value = ret

C1_Witness ==
    /\ Evaluated
    /\ Len(votes) = 3
    /\ Cardinality(Range(votes)) = 3
    /\ Len(result) = 3

\* C2: for every permutation of the candidate list schulze_evaluate yields
\* the same number of levels with the same members in each level
C2_CandidateOrder ==
    Evaluated =>
        \A f \in Reorderings(Len(candidates)) :
            LET other == schulze_evaluate(votes, Permuted(candidates, f), strength)
                levels == as_vote_tuple(other.value)
                mine == as_vote_tuple(ret)
            IN  /\ other.raised = NoError
                /\ Len(levels) = Len(mine)
                /\ \A l \in 1..Len(mine) : Range(levels[l]) = Range(mine[l])

C2_Witness ==
    /\ Evaluated
    /\ Len(candidates) = 3
    /\ Len(result) = 2
    /\ \E f \in Reorderings(3) :
           schulze_evaluate(votes, Permuted(candidates, f), strength).value # ret

\* a Condorcet winner: more ballots prefer c to x than x to c, for every other x
CondorcetWinner(c) ==
    \A x \in Range(candidates) \ {c} : counts[<<c, x>>] > counts[<<x, c>>]

\* C3: a Condorcet winner is alone in the first level, under both callbacks
C3_CondorcetWinner ==
    pc = "done" =>
        \A c \in Range(candidates) : CondorcetWinner(c) => result[1] = <<c>>

C3_Witness ==
    /\ pc = "done"
    /\ strength = "margin"
    /\ \E c \in Range(candidates) :
           /\ CondorcetWinner(c)
           /\ \E x \in Range(candidates) : counts[<<x, c>>] > 0
    /\ Len(result) = 2

NoTiedCounts == \A pair \in DistinctPairs : counts[pair] # counts[<<pair[2], pair[1]>>]

SameAsOtherCallback ==
    ret = schulze_evaluate(votes, candidates, OtherCallback).value

\* C4 as claimed: without tied pairwise counts winning_votes and margin
\* return identical condensed results
C4_NoTiedCounts == Evaluated /\ NoTiedCounts => SameAsOtherCallback

\* every pair of distinct candidates is ranked strictly by the same number of
\* ballots (and so left tied by the same number)
EvenlyRanked ==
    \A p1, p2 \in DistinctPairs :
        counts[p1] + counts[<<p1[2], p1[1]>>] = counts[p2] + counts[<<p2[2], p2[1]>>]

\* C4 amended: without tied pairwise counts, and with every pair of distinct
\* candidates left tied by the same number of ballots, winning_votes and
\* margin return identical condensed results
C4_NoTiedCountsEvenlyRanked ==
    Evaluated /\ NoTiedCounts /\ EvenlyRanked => SameAsOtherCallback

C4_Witness ==
    /\ Evaluated
    /\ NoTiedCounts
    /\ EvenlyRanked
    /\ \E v \in Range(votes) : \E pair \in DistinctPairs : Ties(v, pair[1], pair[2])
    /\ Len(result) = 3

NoBallotTies ==
    \A v \in 1..Len(votes) :
        LET vt == as_vote_tuple(votes[v]) IN \A l \in 1..Len(vt) : Len(vt[l]) = 1

\* C5: when no ballot contains a tie, winning_votes and margin return
\* identical results
C5_NoBallotTies == Evaluated /\ NoBallotTies => SameAsOtherCallback

C5_Witness ==
    /\ Evaluated
    /\ NoBallotTies
    /\ Len(votes) = 5
    /\ \E pair \in DistinctPairs : counts[<<pair[2], pair[1]>>] > counts[pair]
                                       /\ d[pair] # d[<<pair[2], pair[1]>>]
    /\ \E x, y, z \in Range(candidates) :
           /\ counts[<<x, y>>] > counts[<<y, x>>]
           /\ counts[<<y, z>>] > counts[<<z, y>>]
           /\ counts[<<z, x>>] > counts[<<x, z>>]
    /\ Len(result) = 2

\* C10: pairwise_preference counts for (x, y) the ballots with x in an
\* earlier level than y; the ballots tying x and y count for neither
C10_PairwiseCounts ==
    pc = "done" /\ entry = "pairwise_preference" =>
        \A pair \in DistinctPairs :
            LET x == pair[1]
                y == pair[2]
                idx == 1..Len(votes)
            IN  /\ ret[<<x, y>>] = Cardinality({v \in idx : Prefers(votes[v], x, y)})
                /\ ret[<<x, y>>] + ret[<<y, x>>]
                       + Cardinality({v \in idx : Ties(votes[v], x, y)}) = Len(votes)

C10_Witness ==
    /\ pc = "done"
    /\ entry = "pairwise_preference"
    /\ \E pair \in DistinctPairs :
           /\ ret[pair] = 1
           /\ ret[<<pair[2], pair[1]>>] = 1
           /\ \E v \in Range(votes) : Ties(v, pair[1], pair[2])

\* no declared candidate contains ">" or "="
WellFormedCandidates ==
    \A i \in 1..Len(candidates) :
        \A j \in 1..Len(candidates[i]) : candidates[i][j] \notin {">", "="}

\* the candidates a vote string names, in order, with repetitions
NamesIn(v) == Flatten(as_vote_tuple(v))

Extra(v) == \E i \in 1..Len(NamesIn(v)) : NamesIn(v)[i] \notin Range(candidates)

Omits(v) == \E c \in Range(candidates) : c \notin Range(NamesIn(v))

Repeats(v) ==
    \E i, j \in 1..Len(NamesIn(v)) : i # j /\ NamesIn(v)[i] = NamesIn(v)[j]

Invalid(v) == Extra(v) \/ Omits(v) \/ Repeats(v)

SomeInvalid == \E k \in 1..Len(votes) : Invalid(votes[k])

\* the first invalid ballot, in ballot order
FirstInvalid ==
    votes[CHOOSE k \in 1..Len(votes) :
              Invalid(votes[k]) /\ \A j \in 1..(k - 1) : ~Invalid(votes[j])]

BallotRejected == pc = "raised" /\ WellFormedCandidates /\ SomeInvalid

\* C6 as claimed: the first invalid ballot raises Superfluous whenever it names
\* an undeclared candidate, and Missing when it names none but omits a
\* declared one
C6_SuperfluousWheneverExtra ==
    BallotRejected =>
        /\ Extra(FirstInvalid) => error = Superfluous
        /\ ~Extra(FirstInvalid) /\ Omits(FirstInvalid) => error = Missing

\* C6 amended: the first invalid ballot raises Missing whenever it omits a
\* declared candidate (also when it names an undeclared one), and Superfluous
\* when it names an undeclared candidate and omits no declared one
C6_MissingWheneverOmitted ==
    BallotRejected =>
        /\ Omits(FirstInvalid) => error = Missing
        /\ Extra(FirstInvalid) /\ ~Omits(FirstInvalid) => error = Superfluous

C6_Witness ==
    /\ BallotRejected
    /\ Extra(FirstInvalid)
    /\ Omits(FirstInvalid)
    /\ error = Missing

\* every declared candidate is named exactly once in every ballot, and no other
ExactlyOnceEach ==
    \A k \in 1..Len(votes) :
        /\ \A c \in Range(candidates) :
               Cardinality({i \in 1..Len(NamesIn(votes[k])) : NamesIn(votes[k])[i] = c}) = 1
        /\ Len(NamesIn(votes[k])) = Len(candidates)

Validated == pc \notin {"call", "raised"}

\* C7 as claimed: a first invalid ballot that names a candidate twice raises
\* NotExactlyOnce, and after validation every candidate is named exactly once
\* in every ballot
C7_DuplicateError ==
    /\ BallotRejected /\ Repeats(FirstInvalid) => error = NotExactlyOnce
    /\ Validated => ExactlyOnceEach

\* C7 amended: a first invalid ballot that names a candidate twice raises
\* NotExactlyOnce when it names exactly the declared candidates, and the
\* Superfluous or Missing error otherwise; after validation every candidate
\* is named exactly once in every ballot
C7_DuplicateErrorForEqualSets ==
    /\ BallotRejected /\ Repeats(FirstInvalid) =>
           IF Extra(FirstInvalid) \/ Omits(FirstInvalid)
           THEN error \in {Superfluous, Missing}
           ELSE error = NotExactlyOnce
    /\ Validated => ExactlyOnceEach

C7_Witness ==
    /\ BallotRejected
    /\ Len(votes) = 2
    /\ ~Invalid(votes[1])
    /\ Repeats(votes[2])
    /\ error = NotExactlyOnce

\* nothing is tallied and nothing is returned
NothingComputed ==
    counts = NoCounts /\ d = NoCounts /\ result = <<>> /\ ret = NoValue

\* the error the first invalid ballot raises by itself
ErrorOfFirstInvalid == CheckVote(as_vote_tuple(FirstInvalid), candidates)

\* C8 as claimed: nothing is tallied before every ballot is validated; with an
\* invalid ballot the call raises the error of the first invalid ballot and
\* returns nothing
C8_FirstInvalidBallot ==
    /\ counts # NoCounts => Validated /\ ~SomeInvalid
    /\ SomeInvalid /\ pc # "call" => pc = "raised" /\ error = ErrorOfFirstInvalid
    /\ pc = "raised" => error # NoError /\ NothingComputed

\* C8 amended: nothing is tallied before every ballot is validated; on invalid
\* input the call raises one error and returns nothing: the forbidden
\* character error when a declared candidate contains ">" or "=", and
\* otherwise the error of the first invalid ballot
C8_ForbiddenOrFirstInvalidBallot ==
    /\ counts # NoCounts => Validated /\ ~SomeInvalid /\ WellFormedCandidates
    /\ (SomeInvalid \/ ~WellFormedCandidates) /\ pc # "call" =>
           /\ pc = "raised"
           /\ error = IF WellFormedCandidates THEN ErrorOfFirstInvalid
                      ELSE ForbiddenCharacter
    /\ pc = "raised" => error # NoError /\ NothingComputed

C8_Witness ==
    /\ BallotRejected
    /\ Len(votes) = 2
    /\ Invalid(votes[1])
    /\ Invalid(votes[2])
    /\ error = Superfluous
    /\ ErrorOfFirstInvalid = Superfluous
    /\ Repeats(votes[2])
    /\ ~Extra(votes[2])

\* C9: with ">" or "=" in a declared candidate every entry point raises the
\* forbidden character error, whatever the ballots are
C9_ForbiddenCharacterFirst ==
    ~WellFormedCandidates /\ pc # "call" =>
        pc = "raised" /\ error = ForbiddenCharacter /\ NothingComputed

C9_Witness ==
    /\ ~WellFormedCandidates
    /\ pc = "raised"
    /\ entry = "pairwise_preference"
    /\ Len(votes) = 2
    /\ Range(NamesIn(votes[1])) = {<<Universe[1]>>, <<Universe[2]>>}
    /\ "=" \in Range(candidates[1])

\* the position of the first occurrence of x in seq
IndexOf(seq, x) == CHOOSE i \in 1..Len(seq) : seq[i] = x /\ \A j \in 1..(i - 1) : seq[j] # x

\* the members of level follow each other as they do in cands
InOrderOf(level, cands) ==
    \A i, j \in 1..Len(level) :
        i < j => IndexOf(cands, level[i]) < IndexOf(cands, level[j])

\* C11: within every level of the result the candidates keep the relative
\* order of the candidate list; the condensed string is the levels joined by
\* ">", each level being its candidates joined by "="
C11_LevelOrder ==
    /\ \A l \in 1..Len(result) : InOrderOf(result[l], candidates)
    /\ Evaluated =>
           IF Len(candidates) = 0 THEN ret = <<>>
           ELSE LET levels == split(ret, ">")
                IN  /\ Len(levels) = Len(result)
                    /\ \A l \in 1..Len(levels) : split(levels[l], "=") = result[l]

C11_Witness ==
    /\ Evaluated
    /\ strength = "margin"
    /\ Len(votes) = 3
    /\ Len(candidates) = 3
    /\ Len(result) = 2
    /\ result[2] = <<candidates[1], candidates[3]>>

DetailedDone == pc = "done" /\ entry = "schulze_evaluate_detailed"

\* the levels of a condensed result; the empty string has none
LevelsOf(value) == IF value = <<>> THEN <<>> ELSE as_vote_tuple(value)

\* the levels of the condensed result of schulze_evaluate for the same input
CondensedLevels == LevelsOf(schulze_evaluate(votes, candidates, strength).value)

\* preferred of the first detailed level, then rejected of every level
Reconstructed(detailed) ==
    IF Len(detailed) = 0 THEN <<>>
    ELSE <<detailed[1].preferred>> \o [l \in 1..Len(detailed) |-> detailed[l].rejected]

\* C12 as claimed: preferred of the first detailed level followed by rejected
\* of every detailed level gives the levels of the condensed result, for
\* every valid input
C12_Reconstructs == DetailedDone => Reconstructed(ret) = CondensedLevels

\* C12 amended: the same for every valid input whose result has at least two
\* levels; with fewer levels the detailed list is empty
C12_ReconstructsTwoLevels ==
    DetailedDone =>
        IF Len(CondensedLevels) >= 2 THEN Reconstructed(ret) = CondensedLevels
        ELSE ret = <<>>

C12_Witness ==
    /\ DetailedDone
    /\ Len(ret) = 2
    /\ Len(ret[1].preferred) = 1
    /\ Len(votes) = 3
    /\ Cardinality(Range(votes)) = 3

\* the ballots that rank x in an earlier level than y
Preferring(x, y) == {v \in 1..Len(votes) : Prefers(votes[v], x, y)}

\* C13: the detailed result has one entry per adjacent pair of levels, with
\* preferred the upper and rejected the lower level; support and opposition
\* have exactly the keys preferred x rejected, and hold the raw counts of the
\* ballots preferring p to r and r to p
C13_DetailedLevels ==
    DetailedDone =>
        /\ Len(ret) = (IF Len(result) = 0 THEN 0 ELSE Len(result) - 1)
        /\ \A k \in 1..Len(ret) :
               /\ ret[k].preferred = result[k]
               /\ ret[k].rejected = result[k + 1]
               /\ DOMAIN ret[k].support = Range(result[k]) \X Range(result[k + 1])
               /\ DOMAIN ret[k].opposition = Range(result[k]) \X Range(result[k + 1])
               /\ \A pr \in Range(result[k]) \X Range(result[k + 1]) :
                      /\ ret[k].support[pr] = counts[pr]
                      /\ ret[k].support[pr] = Cardinality(Preferring(pr[1], pr[2]))
                      /\ ret[k].opposition[pr] = counts[<<pr[2], pr[1]>>]
                      /\ ret[k].opposition[pr] = Cardinality(Preferring(pr[2], pr[1]))

\* a detailed entry whose support differs from the closure table and from d
C13_Witness ==
    /\ DetailedDone
    /\ Len(ret) = 2
    /\ \E pr \in DOMAIN ret[1].support :
           /\ ret[1].support[pr] # StrongestPaths(d, candidates)[pr]
           /\ ret[1].support[pr] # d[pr]
           /\ ret[1].opposition[pr] > 0

\* the vote tuple vt with the members of its level l reordered by f
WithLevelPermuted(vt, l, f) == [vt EXCEPT ![l] = Permuted(vt[l], f)]

\* the ballots with the tied candidates of level l of ballot v reordered by f
WithTiesPermuted(v, l, f) ==
    [votes EXCEPT ![v] = as_vote_string(WithLevelPermuted(as_vote_tuple(votes[v]), l, f))]

\* the levels of ballot v that hold tied candidates
TiedLevels(v) ==
    {l \in 1..Len(as_vote_tuple(votes[v])) : Len(as_vote_tuple(votes[v])[l]) > 1}

\* C14: reordering the candidates tied inside one level of one ballot changes
\* neither the pairwise tally nor the result of schulze_evaluate
C14_TieOrder ==
    pc = "done" =>
        \A v \in 1..Len(votes) :
            \A l \in TiedLevels(v) :
                \A f \in Reorderings(Len(as_vote_tuple(votes[v])[l])) :
                    LET vs == WithTiesPermuted(v, l, f)
                        other == schulze_evaluate(vs, candidates, strength)
                    IN  vs # votes =>
                            /\ _pairwise_preference(vs, candidates) = counts
                            /\ other.raised = NoError
                            /\ entry # "pairwise_preference" =>
                                   other.value = as_vote_string(result)
                            /\ Evaluated => other.value = ret

C14_Witness ==
    /\ Evaluated
    /\ Len(votes) = 3
    /\ Len(result) = 3
    /\ \E v \in 1..Len(votes) : \E f \in Reorderings(2) :
           /\ Len(as_vote_tuple(votes[v])) = 2
           /\ Len(as_vote_tuple(votes[v])[2]) = 2
           /\ WithTiesPermuted(v, 2, f) # votes

\* C15: without ballots schulze_evaluate returns all the candidates tied in
\* one level, in candidate-list order, under both callbacks
C15_ZeroBallots ==
    Evaluated /\ Len(votes) = 0 =>
        /\ ret = join("=", candidates)
        /\ Len(candidates) > 0 => result = <<candidates>>

C15_Witness ==
    /\ Evaluated
    /\ Len(votes) = 0
    /\ strength = "margin"
    /\ Len(candidates) = 3
    /\ ret = <<"a", "=", "b", "=", "c">>

SetMax(S) == CHOOSE m \in S : \A n \in S : m >= n

RECURSIVE Widest(_, _, _, _)
\* the greatest, over the directed paths from x to y whose inner vertices are
\* distinct members of via, of the least link strength on the path
Widest(dd, via, x, y) ==
    SetMax({dd[<<x, y>>]} \cup {Min(dd[<<x, z>>], Widest(dd, via \ {z}, z, y)) : z \in via})

\* the same over the paths within the set within (a path that visits a
\* candidate twice is no stronger than the path without the round trip)
WidestPath(dd, within, x, y) == Widest(dd, within \ {x, y}, x, y)

\* the candidates left before level l was appended
RemainingBefore(l) == Remaining(SubSeq(result, 1, l - 1), candidates)

\* the members of R no other member of R beats, by the widest paths within
Undominated(dd, R, within) ==
    LET w == Dict([pair \in {q \in R \X R : q[1] # q[2]} |->
                      WidestPath(dd, within, pair[1], pair[2])])
    IN  {i \in R : \A j \in R \ {i} : w[<<i, j>>] >= w[<<j, i>>]}

\* C16 as claimed: every level is the set of the remaining candidates that no
\* remaining candidate beats by the widest paths over all the candidates
C16_FullClosure ==
    \A l \in 1..Len(result) :
        Range(result[l]) =
            Undominated(d, Range(RemainingBefore(l)), Range(candidates))

\* C16 amended: every level is the set of the remaining candidates that no
\* remaining candidate beats by the widest paths over the remaining
\* candidates only
C16_RemainingClosure ==
    \A l \in 1..Len(result) :
        Range(result[l]) =
            Undominated(d, Range(RemainingBefore(l)), Range(RemainingBefore(l)))

\* a level that the widest paths over all the candidates would not give
C16_Witness ==
    /\ pc = "done"
    /\ \E l \in 1..Len(result) :
           /\ l > 1
           /\ Len(RemainingBefore(l)) = 2
           /\ Range(result[l]) #
                  Undominated(d, Range(RemainingBefore(l)), Range(candidates))

\* the table p of _schulze_winners(d, remaining) in the iteration to come
ClosureTable == StrongestPaths(d, Remaining(result, candidates))

RemainingPairs ==
    {q \in Pairs(Remaining(result, candidates)) : q[1] # q[2]}

\* C17: after the three loops p[(x, y)] is, for distinct candidates x and y
\* of the input, the greatest over the directed paths from x to y of the
\* least link strength on the path
C17_WidestPaths ==
    pc = "loop" =>
        LET p == ClosureTable
        IN  \A q \in RemainingPairs :
                p[q] = WidestPath(d, Range(Remaining(result, candidates)), q[1], q[2])

\* a strongest path that needs two candidates in between
C17_Witness ==
    /\ pc = "loop"
    /\ result = <<>>
    /\ Len(candidates) = 4
    /\ LET p == ClosureTable
       IN  \E q \in RemainingPairs :
               /\ p[q] > d[q]
               /\ \A z \in Range(candidates) \ {q[1], q[2]} :
                      p[q] > Min(d[<<q[1], z>>], d[<<z, q[2]>>])

\* C18 as claimed: p[(j, k)] >= min(p[(j, i)], p[(i, k)]) for all i, j, k
C18_Closed ==
    pc = "loop" =>
        LET p == ClosureTable
        IN  \A i, j, k \in Range(Remaining(result, candidates)) :
                p[<<j, k>>] >= Min(p[<<j, i>>], p[<<i, k>>])

\* C18 amended: the same for all i, j, k with j # k; the entries p[(j, j)]
\* are never updated
C18_ClosedOffDiagonal ==
    pc = "loop" =>
        LET p == ClosureTable
        IN  \A i, j, k \in Range(Remaining(result, candidates)) :
                j # k => p[<<j, k>>] >= Min(p[<<j, i>>], p[<<i, k>>])

\* an entry the loops raised to the strength of the path through i
C18_Witness ==
    /\ pc = "loop"
    /\ result = <<>>
    /\ Len(candidates) = 4
    /\ LET p == ClosureTable
       IN  \E i, j, k \in Range(candidates) :
               /\ Cardinality({i, j, k}) = 3
               /\ d[<<j, k>>] < Min(d[<<j, i>>], d[<<i, k>>])
               /\ p[<<j, k>>] = Min(p[<<j, i>>], p[<<i, k>>])
               /\ p[<<j, i>>] > d[<<j, i>>]

\* C19: every iteration of the loop leaves fewer candidates remaining than it
\* found, the loop is left as soon as none remains, and it runs for at most
\* as many iterations as there are candidates
C19_LoopShrinks ==
    [][pc = "loop" =>
          /\ Len(result') <= Len(candidates)
          /\ IF pc' = "loop"
             THEN /\ Len(result') = Len(result) + 1
                  /\ Len(Remaining(result', candidates))
                         < Len(Remaining(result, candidates))
             ELSE /\ pc' = "returned"
                  /\ Len(Remaining(result, candidates)) = 0]_vars

C19_Witness ==
    /\ pc = "returned"
    /\ strength = "margin"
    /\ Len(candidates) = 3
    /\ Len(result) = 3

\* C20: the loop never appends an empty level and never iterates with the
\* remaining candidates unchanged: when no remaining candidate is undominated
\* the call raises an error in place of appending
C20_FailFast ==
    \A l \in 1..Len(result) :
        /\ result[l] # <<>>
        /\ Remaining(SubSeq(result, 1, l), candidates) # RemainingBefore(l)

\* the levels of res that hold candidate c
LevelsHolding(res, c) == {l \in 1..Len(res) : c \in Range(res[l])}

\* C21: the levels built so far are non-empty and pairwise disjoint and,
\* with the remaining candidates, they partition the candidate list; on
\* return every candidate is in exactly one level and there are at most as
\* many levels as candidates
C21_Partition ==
    /\ \A l \in 1..Len(result) :
           /\ result[l] # <<>>
           /\ Cardinality(Range(result[l])) = Len(result[l])
    /\ \A l, m \in 1..Len(result) :
           l # m => Range(result[l]) \cap Range(result[m]) = {}
    /\ Range(Flatten(result)) \cup Range(Remaining(result, candidates))
           = Range(candidates)
    /\ pc = "loop" =>
           Len(Flatten(result)) + Len(Remaining(result, candidates)) = Len(candidates)
    /\ pc \in {"returned", "done"} /\ entry # "pairwise_preference" =>
           /\ \A c \in Range(candidates) : Cardinality(LevelsHolding(result, c)) = 1
           /\ Len(Flatten(result)) = Len(candidates)
           /\ Len(result) <= Len(candidates)

C21_Witness ==
    /\ pc = "loop"
    /\ strength = "margin"
    /\ Len(candidates) = 3
    /\ Len(result) = 2
    /\ Len(result[1]) = 1
    /\ Len(Remaining(result, candidates)) = 1

\* the links between distinct candidates that more ballots support than oppose
WinningLinks == {q \in DistinctPairs : counts[q] > counts[<<q[2], q[1]>>]}

\* C22: among the links with support > opposition winning_votes rates the link
\* with more support strictly stronger and, for equal support, the link with
\* less opposition; every such link is rated above a tied link, rated 0,
\* which is rated above every link with support < opposition, rated -1
C22_WinningVotesOrder ==
    strength = "winning_votes" /\ pc \in {"loop", "returned", "done"} =>
        /\ \A q1, q2 \in WinningLinks :
               /\ counts[q1] > counts[q2] => d[q1] > d[q2]
               /\ counts[q1] = counts[q2]
                     /\ counts[<<q1[2], q1[1]>>] < counts[<<q2[2], q2[1]>>]
                     => d[q1] > d[q2]
        /\ \A q \in DistinctPairs :
               /\ counts[q] + counts[<<q[2], q[1]>>] <= Len(votes)
               /\ counts[q] > counts[<<q[2], q[1]>>] => d[q] > 0
               /\ counts[q] = counts[<<q[2], q[1]>>] => d[q] = 0
               /\ counts[q] < counts[<<q[2], q[1]>>] => d[q] = -1

C22_Witness ==
    /\ strength = "winning_votes"
    /\ pc = "done"
    /\ Len(votes) = 5
    /\ \E q1, q2 \in WinningLinks :
           /\ counts[q1] > counts[q2]
           /\ counts[<<q1[2], q1[1]>>] > counts[<<q2[2], q2[1]>>]
    /\ \E q1, q2 \in WinningLinks :
           /\ counts[q1] = counts[q2]
           /\ counts[<<q1[2], q1[1]>>] < counts[<<q2[2], q2[1]>>]

\* every ballot ranks x in an earlier level than y, and there is a ballot
Unanimous(x, y) ==
    /\ Len(votes) > 0
    /\ \A v \in 1..Len(votes) : Prefers(votes[v], x, y)

\* C23: when every ballot ranks x strictly above y, x is in a strictly
\* earlier level of the result than y, under both callbacks
C23_Unanimity ==
    Evaluated =>
        \A q \in DistinctPairs :
            Unanimous(q[1], q[2]) =>
                /\ LevelOf(result, q[1]) < LevelOf(result, q[2])
                /\ LevelOf(as_vote_tuple(ret), q[1]) < LevelOf(as_vote_tuple(ret), q[2])

\* a unanimous pair below a first level that the ballots disagree about
C23_Witness ==
    /\ Evaluated
    /\ Len(votes) = 3
    /\ Cardinality(Range(votes)) = 2
    /\ Len(result) = 3
    /\ \E q \in DistinctPairs :
           /\ Unanimous(q[1], q[2])
           /\ LevelOf(result, q[1]) = 2
           /\ \E v \in 1..Len(votes) : LevelOf(as_vote_tuple(votes[v]), q[1]) = 1

=============================================================================
